---- MODULE Spec2Model ----
(***************************************************************************)
(* Model of the comparable-discovery core of the property-analysis         *)
(* backend (backend/analysis.py, backend/app.py):                          *)
(*   PropertyData, ComparableDiscoveryAgent (load_properties,              *)
(*   calculate_similarity_score, find_comparables) and                     *)
(*   PropertyAnalysisSystem (initialize_system,                            *)
(*   analyze_property_comparables, list_properties).                       *)
(*                                                                         *)
(* Numbers.  Python floats are modelled by integers:                       *)
(*   - a score is counted in units of 1/10000 (ScoreScale);                *)
(*   - coordinates are counted in thousandths of a degree;                 *)
(*   - a distance is counted in tenths of a mile.                          *)
(* The record pool is chosen so that every division of the scorer is       *)
(* exact in these units.                                                   *)
(*                                                                         *)
(* Optional values (Python None) are sequences of length 0 or 1.           *)
(***************************************************************************)
EXTENDS Integers, Sequences, FiniteSets, TLC

VARIABLES
    properties_database,  \* PropertyAnalysisSystem.properties_database
    properties_db,        \* ComparableDiscoveryAgent.properties_db
    init_pc,              \* position of a running initialize_system
    all_properties,       \* its local list (meaningful while init_pc = "assigned")
    clock,                \* datetime.now(), one tick per catalog load
    op,                   \* the client's call: "none", "analyze", "find" or "list"
    req_pc,               \* its position: idle, resolved (analyze has its target), done
    entry,                \* how analyze was entered: "core" (the method) or "http" (the route)
    arg_id,               \* the property_id the caller supplied (None = <<>>)
    arg_data,             \* the property_data the caller supplied (None = <<>>)
    arg_other,            \* http only: the JSON body holds some other key
    target_property,      \* its local target_property
    resolve_view,         \* which load's properties_database the request resolved its id in
    database_load,        \* number of the load that installed properties_database
    db_load,              \* number of the load that installed properties_db
    result,               \* the value the last analyze / list call returned
    finder                \* the last find_comparables call: arguments, list read, value returned

vars == <<properties_database, properties_db, init_pc, all_properties, clock,
          op, req_pc, entry, arg_id, arg_data, arg_other, target_property, resolve_view,
          database_load, db_load, result, finder>>

-----------------------------------------------------------------------------
(* Bounds *)

MaxCatalog == 3      \* longest catalog a load may install
MaxLoads == 2        \* number of initialize_system runs
MaxResultsArg == 3   \* largest max_results passed to find_comparables directly
MaxLimit == 2        \* largest limit passed to list_properties
MaxAssembled == 2    \* longest list handed to the result assembly on its own

(* Program constants *)

DefaultMaxResults == 5   \* find_comparables(max_results=5)
DefaultLimit == 10       \* list_properties(limit=10)
HttpDefaultLimit == 20   \* request.args.get('limit', 20)
ScoreScale == 10000      \* model unit: 1.0 = 10000
WeightBuildingArea == 3000   \* weight_factors['building_area'] = 0.30
WeightLocation == 1000       \* weight_factors['location'] = 0.10
WeightAge == 1500            \* weight_factors['age'] = 0.15
HighThreshold == 8000        \* similarity_score > 0.8
MediumThreshold == 6000      \* similarity_score > 0.6
MeanScale == 60              \* model unit of a mean: 1/(MeanScale * ScoreScale)

-----------------------------------------------------------------------------
(* Small helpers *)

None == <<>>
Some(x) == <<x>>
Min(a, b) == IF a <= b THEN a ELSE b
Max(a, b) == IF a >= b THEN a ELSE b
Abs(a) == IF a >= 0 THEN a ELSE 0 - a
Range(s) == {s[i] : i \in 1..Len(s)}

-----------------------------------------------------------------------------
(* PropertyData.  Fields without influence on any operation modelled here  *)
(* (address, city, state, zip_code, property_type, sale_price, sale_date)  *)
(* are left out.  last_updated = <<>> is Python's None.                     *)

Raw(id, county, lat, lon, area, lot, year, zoning, value) ==
    [property_id |-> id, county |-> county, latitude |-> lat, longitude |-> lon,
     building_area |-> area, lot_size |-> lot, year_built |-> year,
     zoning |-> zoning, assessed_value |-> value, last_updated |-> None]

\* __post_init__: last_updated defaults to the construction time
PropertyData(data, now) ==
    [data EXCEPT !.last_updated = IF data.last_updated = None THEN Some(now) ELSE @]

\* The records the data source can deliver (MockCountyAPI rows whose zoning
\* passes the industrial filter): unique identifiers, positive areas and
\* values, coordinates in range.  CO0000 and CO0001 differ only in
\* identifier, lot size and zoning.
Pool ==
    { Raw("CO0000", "Cook County", 41878, -87630, 50000, 100000, 2000, "M1", 4000000),
      Raw("CO0001", "Cook County", 41878, -87630, 50000, 150000, 2000, "M2", 4000000),
      Raw("CO0002", "Cook County", 41936, -87630, 100000, 200000, 1980, "M1", 9000000),
      Raw("DA0000", "Dallas County", 32777, -96797, 25000, 50000, 1990, "IL", 2000000) }

\* property_data dictionaries a caller may pass for an ad-hoc analysis
AdHocValid ==
    { Raw("TEST001", "Cook County", 41878, -87630, 50000, 100000, 2000, "M1", 2000000),
      Raw("CO0000", "Cook County", 42096, -87630, 40000, 80000, 1995, "M2", 3000000) }

\* building_area 0, assessed_value 0
AdHocInvalid ==
    { Raw("BAD001", "Cook County", 41878, -87630, 0, 100000, 2000, "M1", 2000000),
      Raw("BAD002", "Cook County", 41878, -87630, 50000, 100000, 2000, "M1", 0) }

AdHoc == AdHocValid \cup AdHocInvalid

\* property_id strings a caller may pass
IdArgs == {r.property_id : r \in Pool} \cup {"NOPE", ""}

Ids(cat) == {cat[i].property_id : i \in 1..Len(cat)}

\* Lists the data source can deliver: no identifier twice
RawCatalogs ==
    {s \in UNION {[1..n -> Pool] : n \in 0..MaxCatalog} :
        \A i, j \in 1..Len(s) : i # j => s[i].property_id # s[j].property_id}

-----------------------------------------------------------------------------
(* ComparableDiscoveryAgent *)

\* geopy's geodesic(...).miles, in tenths of a mile.  One thousandth of a
\* degree of latitude is 0.069 miles, so the value is exact (to a tenth of
\* a mile) for two points on one meridian.  Points on different meridians
\* get the larger of their north-south and east-west separations, a lower
\* bound of the distance; in the pool such points are hundreds of miles
\* apart, and every distance of 10 miles or more gives location_score 0.
geodesic_miles(a, b) ==
    IF a.longitude = b.longitude
    THEN (Abs(a.latitude - b.latitude) * 69) \div 100
    ELSE Max((Abs(a.latitude - b.latitude) * 69) \div 100,
             (Abs(a.longitude - b.longitude) * 51) \div 100)

\* A scorer that forgets the max(0, ...) of location_score
ScoreUnclamped(target, comp) ==
    LET area_ratio == (WeightBuildingArea * Min(target.building_area, comp.building_area))
                          \div Max(target.building_area, comp.building_area)
        distance == geodesic_miles(target, comp)
        location_score == (WeightLocation * (100 - distance)) \div 100
        age_diff == Abs(target.year_built - comp.year_built)
        age_score == (WeightAge * Max(0, 50 - age_diff)) \div 50
    IN area_ratio + location_score + age_score

\* A scorer whose area term is relative to the target: comp / target
ScoreTargetRelative(target, comp) ==
    LET area_ratio == (WeightBuildingArea * comp.building_area) \div target.building_area
        distance == geodesic_miles(target, comp)
        location_score == (WeightLocation * Max(0, 100 - distance)) \div 100
        age_diff == Abs(target.year_built - comp.year_built)
        age_score == (WeightAge * Max(0, 50 - age_diff)) \div 50
    IN area_ratio + location_score + age_score

\* A scorer that also applies the declared lot_size weight (0.20)
ScoreWithLotSize(target, comp) ==
    LET area_ratio == (WeightBuildingArea * Min(target.building_area, comp.building_area))
                          \div Max(target.building_area, comp.building_area)
        lot_ratio == (2000 * Min(target.lot_size, comp.lot_size))
                          \div Max(target.lot_size, comp.lot_size)
        distance == geodesic_miles(target, comp)
        location_score == (WeightLocation * Max(0, 100 - distance)) \div 100
        age_diff == Abs(target.year_built - comp.year_built)
        age_score == (WeightAge * Max(0, 50 - age_diff)) \div 50
    IN area_ratio + lot_ratio + location_score + age_score

\* A scorer that also applies the declared lot_size (0.20) and zoning (0.25)
\* weights: lot-size ratio and exact zoning match
ScoreAllWeights(target, comp) ==
    LET area_ratio == (WeightBuildingArea * Min(target.building_area, comp.building_area))
                          \div Max(target.building_area, comp.building_area)
        lot_ratio == (2000 * Min(target.lot_size, comp.lot_size))
                          \div Max(target.lot_size, comp.lot_size)
        zoning_score == IF target.zoning = comp.zoning THEN 2500 ELSE 0
        distance == geodesic_miles(target, comp)
        location_score == (WeightLocation * Max(0, 100 - distance)) \div 100
        age_diff == Abs(target.year_built - comp.year_built)
        age_score == (WeightAge * Max(0, 50 - age_diff)) \div 50
    IN area_ratio + lot_ratio + zoning_score + location_score + age_score

\* calculate_similarity_score, in units of 1/ScoreScale.
\* max(...) is positive whenever one of the two areas is, which holds for
\* every call made here (catalog areas are positive).
calculate_similarity_score(target, comp) ==
    LET area_ratio == (WeightBuildingArea * Min(target.building_area, comp.building_area))
                          \div Max(target.building_area, comp.building_area)
        distance == geodesic_miles(target, comp)
        location_score == (WeightLocation * Max(0, 100 - distance)) \div 100
        age_diff == Abs(target.year_built - comp.year_built)
        age_score == (WeightAge * Max(0, 50 - age_diff)) \div 50
    IN area_ratio + location_score + age_score

\* A sort that forgets reverse=True: ascending
RECURSIVE SortByScoreAsc(_)
SortByScoreAsc(s) ==
    IF s = <<>> THEN <<>>
    ELSE LET x == s[Len(s)]
             sorted == SortByScoreAsc(SubSeq(s, 1, Len(s) - 1))
             k == Cardinality({i \in 1..Len(sorted) : sorted[i].score <= x.score})
         IN SubSeq(sorted, 1, k) \o <<x>> \o SubSeq(sorted, k + 1, Len(sorted))

\* A descending sort that is not stable: an element goes before its equals
\* (what sorting ascending and reversing the list gives)
RECURSIVE SortByScoreDescTiesReversed(_)
SortByScoreDescTiesReversed(s) ==
    IF s = <<>> THEN <<>>
    ELSE LET x == s[Len(s)]
             sorted == SortByScoreDescTiesReversed(SubSeq(s, 1, Len(s) - 1))
             k == Cardinality({i \in 1..Len(sorted) : sorted[i].score > x.score})
         IN SubSeq(sorted, 1, k) \o <<x>> \o SubSeq(sorted, k + 1, Len(sorted))

\* list.sort(key=lambda x: x[1], reverse=True): stable, descending.
\* The last element is placed after every element whose score is >= its own.
RECURSIVE SortByScoreDesc(_)
SortByScoreDesc(s) ==
    IF s = <<>> THEN <<>>
    ELSE LET x == s[Len(s)]
             sorted == SortByScoreDesc(SubSeq(s, 1, Len(s) - 1))
             k == Cardinality({i \in 1..Len(sorted) : sorted[i].score >= x.score})
         IN SubSeq(sorted, 1, k) \o <<x>> \o SubSeq(sorted, k + 1, Len(sorted))

\* A slice that keeps one entry too many: s[:n + 1]
PySliceOneMore(s, n) ==
    IF n + 1 >= 0 THEN SubSeq(s, 1, Min(n + 1, Len(s)))
    ELSE SubSeq(s, 1, Max(0, Len(s) + n + 1))

\* Python's s[:n], n of either sign
PySlice(s, n) ==
    IF n >= 0 THEN SubSeq(s, 1, Min(n, Len(s)))
    ELSE SubSeq(s, 1, Max(0, Len(s) + n))

\* The loop without its identifier test: every record is scored
RECURSIVE ScoreAll(_, _)
ScoreAll(db, target) ==
    IF db = <<>> THEN <<>>
    ELSE Append(ScoreAll(SubSeq(db, 1, Len(db) - 1), target),
                [prop |-> db[Len(db)],
                 score |-> calculate_similarity_score(target, db[Len(db)])])

\* The loop of find_comparables: score every record whose identifier differs
\* from the target's, in catalog order
RECURSIVE ScoreOthers(_, _)
ScoreOthers(db, target) ==
    IF db = <<>> THEN <<>>
    ELSE LET prop == db[Len(db)]
             rest == ScoreOthers(SubSeq(db, 1, Len(db) - 1), target)
         IN IF prop.property_id # target.property_id
            THEN Append(rest, [prop |-> prop,
                               score |-> calculate_similarity_score(target, prop)])
            ELSE rest

find_comparables(db, target, max_results) ==
    PySlice(SortByScoreDesc(ScoreOthers(db, target)), max_results)

\* load_properties: the list object is installed as it is
load_properties(properties) == properties

-----------------------------------------------------------------------------
(* Values returned to callers *)

NoResult ==
    [kind |-> "none", error |-> "", status |-> 0, target_property |-> None, comparables |-> <<>>,
     total_comparables_found |-> 0, avg_similarity_score |-> 0,
     county |-> None, limit |-> 0, listing |-> <<>>]

\* {'error': 'Property with ID ... not found'}
NotFoundError == [NoResult EXCEPT !.kind = "error", !.error = "not found"]

\* {'error': 'Either property_id or property_data must be provided'}
ArgumentError == [NoResult EXCEPT !.kind = "error", !.error = "must be provided"]

NoCall == [caller |-> "none", target |-> None, max_results |-> 0,
           db |-> <<>>, db_load |-> 0, results |-> <<>>]

\* Python truthiness of the two selectors: None and '' are false
Truthy(opt) == opt # None /\ opt[1] # ""

\* next((p for p in properties_database if p.property_id == property_id), None)
FirstWithId(db, id) ==
    LET hits == {i \in 1..Len(db) : db[i].property_id = id}
    IN IF hits = {} THEN None
       ELSE Some(db[CHOOSE i \in hits : \A j \in hits : i <= j])

\* round(similarity_score, 3): to the nearest 1/1000, a half to the even side
Round3(score) ==
    LET q == score \div 10
        r == score % 10
    IN 10 * (IF r < 5 THEN q ELSE IF r > 5 THEN q + 1 ELSE IF q % 2 = 0 THEN q ELSE q + 1)

\* A labelling that reads the rounded score
ConfidenceLevelRounded(similarity_score) ==
    IF Round3(similarity_score) > HighThreshold THEN "High"
    ELSE IF Round3(similarity_score) > MediumThreshold THEN "Medium"
    ELSE "Low"

ConfidenceLevel(similarity_score) ==
    IF similarity_score > HighThreshold THEN "High"
    ELSE IF similarity_score > MediumThreshold THEN "Medium"
    ELSE "Low"

RECURSIVE SumScores(_)
SumScores(comparables) ==
    IF comparables = <<>> THEN 0
    ELSE comparables[1].score + SumScores(Tail(comparables))

\* An assembly that divides the sum by max_results instead of the length
AnalysisResultFixedDivisor(target, comparables) ==
    [kind |-> "result", error |-> "", status |-> 0,
     target_property |-> Some(target),
     comparables |-> [i \in 1..Len(comparables) |->
                        [prop |-> comparables[i].prop,
                         similarity_score |-> Round3(comparables[i].score),
                         confidence_level |-> ConfidenceLevel(comparables[i].score)]],
     total_comparables_found |-> Len(comparables),
     avg_similarity_score |-> IF comparables # <<>>
                              THEN (MeanScale * SumScores(comparables)) \div DefaultMaxResults
                              ELSE 0,
     county |-> None, limit |-> 0, listing |-> <<>>]

\* The dictionary built in lines 443-457 of analyze_property_comparables.
\* The mean is counted in units of 1/(MeanScale * ScoreScale): the division
\* is exact for every list of up to five scores, the longest lists there are.
AnalysisResult(target, comparables) ==
    [kind |-> "result", error |-> "", status |-> 0,
     target_property |-> Some(target),
     comparables |-> [i \in 1..Len(comparables) |->
                        [prop |-> comparables[i].prop,
                         similarity_score |-> Round3(comparables[i].score),
                         confidence_level |-> ConfidenceLevel(comparables[i].score)]],
     total_comparables_found |-> Len(comparables),
     avg_similarity_score |-> IF comparables # <<>>
                              THEN (MeanScale * SumScores(comparables)) \div Len(comparables)
                              ELSE 0,
     county |-> None, limit |-> 0, listing |-> <<>>]

-----------------------------------------------------------------------------
(* State after construction: PropertyAnalysisSystem() and its               *)
(* ComparableDiscoveryAgent() hold empty lists; no call is running.         *)

Init ==
    /\ properties_database = <<>>
    /\ properties_db = <<>>
    /\ init_pc = "idle"
    /\ all_properties = <<>>
    /\ clock = 0
    /\ op = "none"
    /\ req_pc = "idle"
    /\ entry = "core"
    /\ arg_id = None
    /\ arg_data = None
    /\ arg_other = FALSE
    /\ target_property = None
    /\ resolve_view = 0
    /\ database_load = 0
    /\ db_load = 0
    /\ result = NoResult
    /\ finder = NoCall

catalogVars == <<properties_database, properties_db, database_load, db_load>>
loadVars == <<init_pc, all_properties, clock>>
callVars == <<op, req_pc, entry, arg_id, arg_data, arg_other, target_property,
              resolve_view, result, finder>>

-----------------------------------------------------------------------------
(* PropertyAnalysisSystem.initialize_system, two steps: another thread can  *)
(* run between its two assignments.  A value a call returned is taken by    *)
(* its caller (Return) before the next load starts; this orders recording   *)
(* only, since Return reads and writes nothing of the program.              *)

\* lines 422-428: build all_properties, assign self.properties_database
InitializeSystemAssign ==
    /\ init_pc = "idle"
    /\ req_pc # "done"
    /\ clock < MaxLoads
    /\ \E raw \in RawCatalogs :
         LET built == [i \in 1..Len(raw) |-> PropertyData(raw[i], clock + 1)]
         IN /\ all_properties' = built
            /\ properties_database' = built
    /\ clock' = clock + 1
    /\ database_load' = clock + 1
    /\ init_pc' = "assigned"
    /\ UNCHANGED <<properties_db, db_load>>
    /\ UNCHANGED callVars

\* lines 429-430: self.comparable_discovery.load_properties(all_properties)
InitializeSystemLoad ==
    /\ init_pc = "assigned"
    /\ req_pc # "done"
    /\ properties_db' = load_properties(all_properties)
    /\ db_load' = clock
    /\ init_pc' = "idle"
    /\ all_properties' = <<>>
    /\ UNCHANGED <<properties_database, database_load, clock>>
    /\ UNCHANGED callVars

-----------------------------------------------------------------------------
(* Analysis requests.  analyze_property_comparables reads                   *)
(* self.properties_database to resolve its target and, later,               *)
(* self.comparable_discovery.properties_db to rank: two steps.              *)

\* {'success': False, 'error': 'No data provided'}, 400
NoDataError == [NoResult EXCEPT !.kind = "error", !.error = "no data", !.status = 400]

\* The selectors the route hands to the method (app.py lines 129-161): with
\* 'property_id' in the body the body's property_data is not passed on.
PassedId(e, pid) == pid
PassedData(e, pid, pdata) == IF e = "http" /\ pid # None THEN None ELSE pdata

\* A resolution that defaults silently when no selector is given: it takes
\* the first catalog record
ResolveTargetDefaulting(database, property_id, property_data, now) ==
    IF Truthy(property_id)
    THEN LET found == FirstWithId(database, property_id[1])
         IN IF found = None
            THEN [error |-> "not found", target |-> None]
            ELSE [error |-> "", target |-> found]
    ELSE IF property_data # None
    THEN [error |-> "", target |-> Some(PropertyData(property_data[1], now))]
    ELSE IF database # <<>>
    THEN [error |-> "", target |-> Some(database[1])]
    ELSE [error |-> "must be provided", target |-> None]

\* A resolution that looks the ad-hoc record up in the catalog by its identifier
ResolveTargetLookingUp(database, property_id, property_data, now) ==
    LET id == IF Truthy(property_id) THEN property_id
              ELSE IF property_data # None THEN Some(property_data[1].property_id)
              ELSE None
    IN IF id = None THEN [error |-> "must be provided", target |-> None]
       ELSE IF FirstWithId(database, id[1]) = None
       THEN [error |-> "not found", target |-> None]
       ELSE [error |-> "", target |-> FirstWithId(database, id[1])]

\* analyze_property_comparables lines 433-440
ResolveTarget(database, property_id, property_data, now) ==
    IF Truthy(property_id)
    THEN LET found == FirstWithId(database, property_id[1])
         IN IF found = None
            THEN [error |-> "not found", target |-> None]
            ELSE [error |-> "", target |-> found]
    ELSE IF property_data # None
    THEN [error |-> "", target |-> Some(PropertyData(property_data[1], now))]
    ELSE [error |-> "must be provided", target |-> None]

\* What the route makes of an error dictionary: status 404
ErrorValue(e, error) ==
    [NoResult EXCEPT !.kind = "error", !.error = error,
                     !.status = IF e = "http" THEN 404 ELSE 0]

\* Entry of a request up to the resolution of its target.
\* app.py lines 117-166 when entered by the route, then analysis.py 433-440.
\* Every property_data dictionary here holds all fields, so the route's
\* missing-field check passes and its defaults are not applied.
AnalyzeResolve ==
    /\ req_pc = "idle"
    /\ \E e \in {"core", "http"}, pid \in {None} \cup {Some(i) : i \in IdArgs},
          pdata \in {None} \cup {Some(d) : d \in AdHoc}, other \in BOOLEAN :
         /\ other => (e = "http" /\ pid = None /\ pdata = None)
         /\ op' = "analyze"
         /\ entry' = e
         /\ arg_id' = pid
         /\ arg_data' = pdata
         /\ arg_other' = other
         /\ IF e = "http" /\ pid = None /\ pdata = None
            THEN \* the route answers by itself: empty body, or no selector key
                 /\ result' = IF other
                              THEN [ArgumentError EXCEPT !.status = 400]
                              ELSE NoDataError
                 /\ req_pc' = "done"
                 /\ UNCHANGED <<target_property, resolve_view>>
            ELSE LET r == ResolveTarget(properties_database, PassedId(e, pid),
                                        PassedData(e, pid, pdata), clock)
                 IN /\ target_property' = r.target
                    /\ resolve_view' = database_load
                    /\ IF r.error = ""
                       THEN /\ req_pc' = "resolved"
                            /\ UNCHANGED result
                       ELSE /\ req_pc' = "done"
                            /\ result' = ErrorValue(e, r.error)
    /\ UNCHANGED finder
    /\ UNCHANGED catalogVars
    /\ UNCHANGED loadVars

\* A ranking that sorts the catalog list itself instead of a fresh list
AnalyzeRankInPlace ==
    /\ req_pc = "resolved"
    /\ LET comparables == find_comparables(properties_db, target_property[1],
                                           DefaultMaxResults)
           sorted == SortByScoreDesc(ScoreAll(properties_db, target_property[1]))
       IN /\ finder' = [caller |-> "analyze", target |-> target_property,
                        max_results |-> DefaultMaxResults, db |-> properties_db,
                        db_load |-> db_load, results |-> comparables]
          /\ result' = [AnalysisResult(target_property[1], comparables)
                            EXCEPT !.status = IF entry = "http" THEN 200 ELSE 0]
          /\ properties_db' = [i \in 1..Len(sorted) |-> sorted[i].prop]
    /\ req_pc' = "done"
    /\ UNCHANGED <<op, entry, arg_id, arg_data, arg_other, target_property, resolve_view>>
    /\ UNCHANGED <<properties_database, database_load, db_load>>
    /\ UNCHANGED loadVars

\* analysis.py lines 442-457, then app.py lines 168-177
AnalyzeRank ==
    /\ req_pc = "resolved"
    /\ LET comparables == find_comparables(properties_db, target_property[1],
                                           DefaultMaxResults)
       IN /\ finder' = [caller |-> "analyze", target |-> target_property,
                        max_results |-> DefaultMaxResults, db |-> properties_db,
                        db_load |-> db_load, results |-> comparables]
          /\ result' = [AnalysisResult(target_property[1], comparables)
                            EXCEPT !.status = IF entry = "http" THEN 200 ELSE 0]
    /\ req_pc' = "done"
    /\ UNCHANGED <<op, entry, arg_id, arg_data, arg_other, target_property, resolve_view>>
    /\ UNCHANGED catalogVars
    /\ UNCHANGED loadVars

\* A direct call of ComparableDiscoveryAgent.find_comparables (lines 405-412)
FindComparablesCall ==
    /\ req_pc = "idle"
    /\ \E t \in Range(properties_db) \cup Range(properties_database)
                  \cup {PropertyData(d, clock) : d \in AdHoc},
          m \in -1..MaxResultsArg :
         finder' = [caller |-> "direct", target |-> Some(t), max_results |-> m,
                    db |-> properties_db, db_load |-> db_load,
                    results |-> find_comparables(properties_db, t, m)]
    /\ op' = "find"
    /\ req_pc' = "done"
    /\ UNCHANGED <<entry, arg_id, arg_data, arg_other, target_property, resolve_view, result>>
    /\ UNCHANGED catalogVars
    /\ UNCHANGED loadVars

\* list_properties (lines 462-477), called directly or by the route
\* get_properties (app.py lines 44-60), which passes the query's county and
\* its limit, 20 when the query has none: the summary projection of one record
Summary(p) ==
    [property_id |-> p.property_id, county |-> p.county,
     building_area |-> p.building_area, zoning |-> p.zoning,
     assessed_value |-> p.assessed_value]

RECURSIVE FilterCounty(_, _)
FilterCounty(properties, county) ==
    IF properties = <<>> THEN <<>>
    ELSE IF properties[1].county = county
         THEN <<properties[1]>> \o FilterCounty(Tail(properties), county)
         ELSE FilterCounty(Tail(properties), county)

\* A listing that cuts to the limit before it filters by county
list_propertiesCutFirst(database, county, limit) ==
    LET cut == PySlice(database, limit)
        shown == IF Truthy(county) THEN FilterCounty(cut, county[1]) ELSE cut
    IN [i \in 1..Len(shown) |-> Summary(shown[i])]

list_properties(database, county, limit) ==
    LET properties == IF Truthy(county) THEN FilterCounty(database, county[1])
                      ELSE database
        shown == PySlice(properties, limit)
    IN [i \in 1..Len(shown) |-> Summary(shown[i])]

Counties == {None, Some(""), Some("Cook County"), Some("Dallas County"), Some("Kane County")}

ListProperties ==
    /\ req_pc = "idle"
    /\ \E e \in {"core", "http"}, county \in Counties :
         \E limit \in (-1..MaxLimit) \cup {IF e = "core" THEN DefaultLimit ELSE HttpDefaultLimit} :
            /\ entry' = e
            /\ result' = [NoResult EXCEPT !.kind = "listing", !.county = county, !.limit = limit,
                             !.status = IF e = "http" THEN 200 ELSE 0,
                             !.listing = list_properties(properties_database, county, limit)]
    /\ op' = "list"
    /\ req_pc' = "done"
    /\ UNCHANGED <<arg_id, arg_data, arg_other, target_property, resolve_view, finder>>
    /\ UNCHANGED catalogVars
    /\ UNCHANGED loadVars

\* The caller takes the returned value; the next call starts from scratch
Return ==
    /\ req_pc = "done"
    /\ op' = "none"
    /\ req_pc' = "idle"
    /\ entry' = "core"
    /\ arg_id' = None
    /\ arg_data' = None
    /\ arg_other' = FALSE
    /\ target_property' = None
    /\ resolve_view' = 0
    /\ result' = NoResult
    /\ finder' = NoCall
    /\ UNCHANGED catalogVars
    /\ UNCHANGED loadVars

Next ==
    \/ InitializeSystemAssign
    \/ InitializeSystemLoad
    \/ AnalyzeResolve
    \/ AnalyzeRank
    \/ FindComparablesCall
    \/ ListProperties
    \/ Return

Spec == Init /\ [][Next]_vars

\* Every behaviour of Spec, with each started step of a load or a request
\* eventually taken (threads are scheduled)
FairSpec == Spec /\ WF_vars(InitializeSystemLoad) /\ WF_vars(AnalyzeRank) /\ WF_vars(Return)

TypeOK ==
    /\ init_pc \in {"idle", "assigned"}
    /\ req_pc \in {"idle", "resolved", "done"}
    /\ clock \in 0..MaxLoads
    /\ Len(properties_database) <= MaxCatalog
    /\ Len(properties_db) <= MaxCatalog

-----------------------------------------------------------------------------
(* The scorer and the result assembly on their own.  UnitSpec applies       *)
(* calculate_similarity_score to every pair of sample records, and lines    *)
(* 443-457 of analyze_property_comparables to every short list of           *)
(* (record, score) pairs, and records the call in finder and result; one    *)
(* call in each behaviour.                                                  *)

\* Valid records: four positions (three on one meridian, 4 and 15 miles
\* from the first, and one in Dallas), four areas, four years, two lot
\* sizes, two zoning codes
SampleSites == {<<41878, -87630>>, <<41936, -87630>>, <<42096, -87630>>, <<32777, -96797>>}
SampleAreas == {25000, 40000, 50000, 100000}
SampleYears == {1940, 1980, 1990, 2000}
SampleLots == {100000, 150000}
SampleZonings == {"M1", "M2"}

ScoreRecords ==
    {PropertyData(Raw("SAMPLE", "Cook County", site[1], site[2], area, lot, year, zoning, 4000000), 0) :
        site \in SampleSites, area \in SampleAreas, lot \in SampleLots,
        year \in SampleYears, zoning \in SampleZonings}

\* Scores around the two confidence thresholds and at both ends
ScoreSamples == {0, 2700, 5500, 5995, 6000, 6001, 6004, 7996, 8000, 8004, 8005, 10000}

AssembledLists ==
    UNION {[1..n -> [prop : {PropertyData(r, 0) : r \in {x \in Pool : x.county = "Dallas County"}},
                     score : ScoreSamples]] : n \in 0..MaxAssembled}

\* calculate_similarity_score(target, comp), lines 392-403
ScoreCall ==
    /\ finder = NoCall
    /\ \E a \in ScoreRecords, b \in ScoreRecords :
         finder' = [caller |-> "scorer", target |-> Some(a), max_results |-> 0,
                    db |-> <<b>>, db_load |-> 0,
                    results |-> <<[prop |-> b, score |-> calculate_similarity_score(a, b)]>>]
    /\ UNCHANGED <<op, req_pc, entry, arg_id, arg_data, arg_other, target_property,
                   resolve_view, result>>
    /\ UNCHANGED catalogVars
    /\ UNCHANGED loadVars

\* lines 443-457 for a target and a list of comparables
AssembleCall ==
    /\ finder = NoCall
    /\ \E t \in AdHocValid, comparables \in AssembledLists :
         /\ finder' = [caller |-> "assembly", target |-> Some(PropertyData(t, 0)),
                       max_results |-> DefaultMaxResults, db |-> <<>>, db_load |-> 0,
                       results |-> comparables]
         /\ result' = AnalysisResult(PropertyData(t, 0), comparables)
    /\ UNCHANGED <<op, req_pc, entry, arg_id, arg_data, arg_other, target_property,
                   resolve_view>>
    /\ UNCHANGED catalogVars
    /\ UNCHANGED loadVars

UnitNext ==
    \/ ScoreCall
    \/ AssembleCall

UnitSpec == Init /\ [][UnitNext]_vars

-----------------------------------------------------------------------------
(* Claims about find_comparables.  finder records every call of it, the     *)
(* direct ones and the one analyze makes.                                   *)

FinderCalled == finder.caller # "none"
TargetId == finder.target[1].property_id
Returned == {finder.results[i].prop : i \in 1..Len(finder.results)}

\* C1: no entry of the list find_comparables returns has the identifier of
\* the target, whatever the catalog, the target and max_results.
C1_TargetExcluded ==
    FinderCalled =>
        \A i \in 1..Len(finder.results) : finder.results[i].prop.property_id # TargetId

\* a call whose target's identifier is in the catalog, with other records returned
C1_Witness ==
    /\ FinderCalled
    /\ TargetId \in Ids(finder.db)
    /\ finder.results # <<>>

\* C2 as stated: for a catalog of size >= 1 and max_results >= 0 the list has
\* min(max_results, catalog_size - 1) entries, for members and ad-hoc targets.
C2_LengthAsStated ==
    (FinderCalled /\ Len(finder.db) >= 1 /\ finder.max_results >= 0) =>
        Len(finder.results) = Min(finder.max_results, Len(finder.db) - 1)

\* C2 (amended): for a catalog of size >= 1 and max_results >= 0 the list has
\* min(max_results, k) entries, k the number of catalog records whose
\* identifier differs from the target's: catalog_size - 1 when the target's
\* identifier is in the catalog, catalog_size when it is not.
C2_Length ==
    (FinderCalled /\ Len(finder.db) >= 1 /\ finder.max_results >= 0) =>
        Len(finder.results) =
            Min(finder.max_results,
                IF TargetId \in Ids(finder.db) THEN Len(finder.db) - 1 ELSE Len(finder.db))

\* an ad-hoc target outside the catalog, every catalog record returned
C2_Witness ==
    /\ FinderCalled
    /\ Len(finder.db) >= 2
    /\ TargetId \notin Ids(finder.db)
    /\ finder.max_results >= Len(finder.db)
    /\ Len(finder.results) = Len(finder.db)

\* C3: the returned list is sorted non-increasing by score (each score being
\* the scorer's value for the target and that record), and no catalog record
\* cut off by the truncation scores strictly higher than a returned one.
C3_SortedByScore ==
    FinderCalled =>
        /\ \A i \in 1..Len(finder.results) :
             /\ finder.results[i].score =
                    calculate_similarity_score(finder.target[1], finder.results[i].prop)
             /\ i < Len(finder.results) => finder.results[i].score >= finder.results[i + 1].score
        /\ \A p \in Range(finder.db) \ Returned :
             p.property_id # TargetId =>
                \A i \in 1..Len(finder.results) :
                    calculate_similarity_score(finder.target[1], p) <= finder.results[i].score

\* two returned records in the reverse of their catalog order with different
\* scores, and a lower-scoring record cut off
C3_Witness ==
    /\ FinderCalled
    /\ Len(finder.results) = 2
    /\ finder.results[1].score > finder.results[2].score
    /\ \E i, j \in 1..Len(finder.db) :
         /\ i < j
         /\ finder.db[i] = finder.results[2].prop
         /\ finder.db[j] = finder.results[1].prop
    /\ \E p \in Range(finder.db) \ Returned : p.property_id # TargetId

-----------------------------------------------------------------------------
(* Claims about analyze and the catalog *)

AnalyzeDone == op = "analyze" /\ req_pc = "done"
IsResult == result.kind = "result"
IsNotFound == result.kind = "error" /\ result.error = "not found"
IsArgumentError == result.kind = "error" /\ result.error = "must be provided"

\* C4: every request by identifier sees one load only: the load whose
\* properties_database resolved its target is the load whose properties_db
\* the Finder ranked over.
C4_OneLoadPerRequest ==
    (AnalyzeDone /\ IsResult /\ Truthy(arg_id)) => resolve_view = finder.db_load

\* C5: analyze with both an identifier and an ad-hoc record supplied returns
\* the ArgumentError and no analysis result, and runs no search.
C5_BothRejected ==
    (AnalyzeDone /\ arg_id # None /\ arg_data # None) =>
        (IsArgumentError /\ finder.caller = "none")

\* C6: analyze with neither selector returns an error value at once (the
\* ArgumentError; the route's own 400 answers included), resolves no target,
\* runs no search and leaves both catalog lists unchanged.
C6_NeitherRejected ==
    [][(req_pc = "idle" /\ op' = "analyze" /\ arg_id' = None /\ arg_data' = None) =>
         /\ req_pc' = "done"
         /\ result'.kind = "error"
         /\ IF entry' = "core" \/ arg_other'
            THEN result'.error = "must be provided"
            ELSE result'.error = "no data"
         /\ entry' = "http" => result'.status = 400
         /\ target_property' = None
         /\ finder' = NoCall
         /\ properties_database' = properties_database
         /\ properties_db' = properties_db]_vars

\* a method call without selectors that returned the error, a catalog being loaded
C6_Witness ==
    /\ AnalyzeDone
    /\ entry = "core"
    /\ arg_id = None /\ arg_data = None
    /\ IsArgumentError
    /\ properties_database # <<>>

\* C7: analyze by an identifier that no catalog record has returns the
\* NotFoundError and no result; by an identifier of the catalog it returns
\* a result whose target is the catalog record with that identifier.
\* (resolve_view = database_load: the catalog is the one the request read.)
C7_ByIdentifier ==
    (AnalyzeDone /\ arg_id # None /\ arg_data = None /\ resolve_view = database_load) =>
        IF arg_id[1] \in Ids(properties_database)
        THEN IsResult /\ result.target_property = FirstWithId(properties_database, arg_id[1])
        ELSE IsNotFound /\ result.target_property = None

\* The data-model invariants the specification states for a record (section 3):
\* positive area and assessed value, coordinates in range
ValidRecord(r) ==
    /\ r.building_area > 0
    /\ r.assessed_value > 0
    /\ r.latitude >= -90000 /\ r.latitude <= 90000
    /\ r.longitude >= -180000 /\ r.longitude <= 180000

\* C8: an ad-hoc record that breaks a data-model invariant never reaches the
\* Finder as the target of an analysis.
C8_InvalidNeverRanked ==
    finder.caller = "analyze" => ValidRecord(finder.target[1])

\* The supplied dictionary and the constructed record agree on every field
\* the caller set
SameSupplied(data, record) ==
    record = [data EXCEPT !.last_updated = record.last_updated]

\* C9: analyze by a valid ad-hoc record whose identifier is not in the
\* catalog returns a result, never an error; its target is the supplied
\* record, its comparables are catalog records, and there is at least one
\* when the loaded catalog is not empty.
C9_AdHocAnalysis ==
    (AnalyzeDone /\ arg_id = None /\ arg_data # None
       /\ ValidRecord(arg_data[1])
       /\ arg_data[1].property_id \notin Ids(properties_db)) =>
        /\ IsResult
        /\ SameSupplied(arg_data[1], result.target_property[1])
        /\ finder.db = properties_db
        /\ \A i \in 1..Len(result.comparables) :
             result.comparables[i].prop \in Range(properties_db)
        /\ properties_db # <<>> => result.comparables # <<>>

\* such an analysis over a loaded catalog of two records or more
C9_Witness ==
    /\ AnalyzeDone /\ arg_id = None /\ arg_data # None
    /\ ValidRecord(arg_data[1])
    /\ arg_data[1].property_id \notin Ids(properties_db)
    /\ init_pc = "idle"
    /\ Len(properties_db) >= 2
    /\ Len(result.comparables) = Len(properties_db)

\* C10: no step of a call (find_comparables, analyze by either selector,
\* succeeding or failing, list_properties) changes a catalog list: the same
\* records, field values and order as the last load left.
C10_QueriesReadOnly ==
    [][req_pc' # req_pc =>
         /\ properties_database' = properties_database
         /\ properties_db' = properties_db]_vars

\* an analysis returned comparables in another order than the catalog's
C10_Witness ==
    /\ AnalyzeDone /\ IsResult
    /\ Len(result.comparables) >= 2
    /\ finder.db = properties_db
    /\ \E i, j \in 1..Len(properties_db) :
         /\ i < j
         /\ properties_db[j] = result.comparables[1].prop
         /\ properties_db[i] = result.comparables[2].prop
         /\ finder.results[1].score > finder.results[2].score

-----------------------------------------------------------------------------
(* Claims about the scorer *)

Scored == finder.caller = "scorer"
ScoreA == finder.target[1]
ScoreB == finder.db[1]
TheScore == finder.results[1].score

\* C11: for every pair of valid records the score lies in [0, 1].
C11_ScoreInUnitInterval ==
    Scored => (TheScore >= 0 /\ TheScore <= ScoreScale)

\* a pair more than 10 miles and more than 50 years apart, scored on area alone
C11_Witness ==
    /\ Scored
    /\ geodesic_miles(ScoreA, ScoreB) > 100
    /\ Abs(ScoreA.year_built - ScoreB.year_built) > 50
    /\ TheScore > 0
    /\ TheScore < WeightBuildingArea

\* C12: the score does not depend on the order of the two records.
C12_Symmetric ==
    Scored => TheScore = calculate_similarity_score(ScoreB, ScoreA)

\* two records that differ in area, year and position, 4 miles apart
C12_Witness ==
    /\ Scored
    /\ ScoreA.building_area < ScoreB.building_area
    /\ ScoreA.year_built > ScoreB.year_built
    /\ geodesic_miles(ScoreA, ScoreB) = 40
    /\ TheScore > 0

\* The three terms of the stated formula, in units of 1/ScoreScale:
\* 0.10 * max(0, 1 - d/10) and 0.15 * max(0, 1 - |dy|/50)
StatedLocation == Max(0, 1000 - 10 * geodesic_miles(ScoreA, ScoreB))
StatedAge == Max(0, 1500 - 30 * Abs(ScoreA.year_built - ScoreB.year_built))

\* C13: the score is 0.30*min(area)/max(area) + 0.10*max(0, 1 - miles/10)
\* + 0.15*max(0, 1 - |year difference|/50); lot_size and zoning have no
\* influence; equal area, position and year give 0.55, a candidate of half
\* the area 0.40, a candidate 15 miles away 0.45.
C13_WeightedSum ==
    Scored =>
        /\ (TheScore - StatedLocation - StatedAge)
               * Max(ScoreA.building_area, ScoreB.building_area)
             = 3000 * Min(ScoreA.building_area, ScoreB.building_area)
        /\ TheScore = calculate_similarity_score(
                          [ScoreA EXCEPT !.lot_size = 1, !.zoning = "I-1"],
                          [ScoreB EXCEPT !.lot_size = 2, !.zoning = "I-2"])
        /\ ScoreA.year_built = ScoreB.year_built =>
             /\ (ScoreA.building_area = ScoreB.building_area
                   /\ geodesic_miles(ScoreA, ScoreB) = 0) => TheScore = 5500
             /\ (ScoreA.building_area = 2 * ScoreB.building_area
                   /\ geodesic_miles(ScoreA, ScoreB) = 0) => TheScore = 4000
             /\ (ScoreA.building_area = ScoreB.building_area
                   /\ geodesic_miles(ScoreA, ScoreB) = 150) => TheScore = 4500

\* a candidate of half the target's area at the same place and of the same
\* year, with another lot size and zoning: 0.40
C13_Witness ==
    /\ Scored
    /\ ScoreA.building_area = 2 * ScoreB.building_area
    /\ geodesic_miles(ScoreA, ScoreB) = 0
    /\ ScoreA.year_built = ScoreB.year_built
    /\ ScoreA.lot_size # ScoreB.lot_size
    /\ ScoreA.zoning # ScoreB.zoning
    /\ TheScore = 4000

-----------------------------------------------------------------------------
(* Claims about the assembled result *)

Assembled == result.kind = "result"
Label(i) == result.comparables[i].confidence_level
Unrounded(i) == finder.results[i].score

\* C14: each comparable's confidence label follows from its unrounded
\* score: High exactly when the score is over 0.8, Medium exactly when it
\* is over 0.6 and at most 0.8, Low otherwise.  (Scores over 0.55 do not
\* come out of the scorer, so the labelling is checked on sampled scores.)
C14_LabelFromUnroundedScore ==
    Assembled =>
        /\ Len(result.comparables) = Len(finder.results)
        /\ \A i \in 1..Len(result.comparables) :
             /\ result.comparables[i].prop = finder.results[i].prop
             /\ Label(i) \in {"High", "Medium", "Low"}
             /\ Label(i) = "High" <=> Unrounded(i) > 8000
             /\ Label(i) = "Medium" <=> (Unrounded(i) > 6000 /\ Unrounded(i) <= 8000)

\* a score just over 0.8 that is shown as 0.800 and labelled High, next to one
\* just over 0.6 shown as 0.600 and labelled Medium
C14_Witness ==
    /\ finder.caller = "assembly"
    /\ Len(result.comparables) = 2
    /\ Unrounded(1) > 8000 /\ result.comparables[1].similarity_score = 8000
    /\ Label(1) = "High"
    /\ Unrounded(2) > 6000 /\ result.comparables[2].similarity_score = 6000
    /\ Label(2) = "Medium"

\* The sum of the scores the Finder returned, by index
RECURSIVE ReturnedSum(_)
ReturnedSum(n) == IF n = 0 THEN 0 ELSE finder.results[n].score + ReturnedSum(n - 1)

\* C15: the summary count is the number of comparables listed and the
\* summary average is the arithmetic mean of their (unrounded) scores; an
\* analysis that finds no comparable (empty catalog, or a catalog holding
\* only the target) still returns a result, with count 0 and average 0.
C15_Summary ==
    (AnalyzeDone /\ finder.caller = "analyze") =>
        /\ Assembled
        /\ result.total_comparables_found = Len(result.comparables)
        /\ Len(result.comparables) = Len(finder.results)
        /\ result.avg_similarity_score * Len(finder.results)
             = MeanScale * ReturnedSum(Len(finder.results))
        /\ finder.results = <<>> =>
             (result.total_comparables_found = 0 /\ result.avg_similarity_score = 0)

\* an analysis by identifier over a catalog that holds only the target
C15_Witness ==
    /\ AnalyzeDone /\ Assembled
    /\ Truthy(arg_id)
    /\ Len(finder.db) = 1
    /\ finder.db[1].property_id = arg_id[1]
    /\ result.comparables = <<>>
    /\ result.total_comparables_found = 0
    /\ result.avg_similarity_score = 0

-----------------------------------------------------------------------------
(* Claims about list_properties *)

Listed == op = "list" /\ req_pc = "done"

\* The k-th smallest index of a set of catalog indices
Kth(M, k) == CHOOSE i \in M : Cardinality({j \in M : j <= i}) = k

\* The listing is the projection of the first n records at the indices M
ListsFirst(M, n) ==
    /\ Len(result.listing) = n
    /\ \A k \in 1..Len(result.listing) :
         LET p == properties_database[Kth(M, k)]
         IN /\ result.listing[k].property_id = p.property_id
            /\ result.listing[k].county = p.county
            /\ result.listing[k].building_area = p.building_area
            /\ result.listing[k].zoning = p.zoning
            /\ result.listing[k].assessed_value = p.assessed_value

\* C16 as stated: for every county filter and limit the listing holds only
\* records of the filter's county (all records without a filter), in
\* catalog order: the first `limit` matching ones, all when fewer match
\* (none for a limit below 0).
C16_ListingAsStated ==
    Listed =>
        LET M == {i \in 1..Len(properties_database) :
                     result.county = None \/ properties_database[i].county = result.county[1]}
        IN ListsFirst(M, IF Cardinality(M) < result.limit THEN Cardinality(M)
                         ELSE Max(0, result.limit))

\* C16 (amended): for every limit >= 0 and every county filter that is
\* absent, empty or a county name, the listing holds, in catalog order, the
\* first `limit` records whose county equals the filter (all of them when
\* fewer match); an absent or empty filter matches every record.  A
\* negative limit lists the matching records without the last |limit|.
C16_Listing ==
    Listed =>
        LET M == {i \in 1..Len(properties_database) :
                     \/ result.county = None
                     \/ result.county = Some("")
                     \/ properties_database[i].county = result.county[1]}
        IN ListsFirst(M, IF result.limit >= 0 THEN Min(result.limit, Cardinality(M))
                         ELSE Max(0, Cardinality(M) + result.limit))

\* a county filter that skips the first catalog record and a limit that cuts
\* the matching records to one
C16_Witness ==
    /\ Listed
    /\ result.county = Some("Cook County")
    /\ result.limit = 1
    /\ Len(properties_database) >= 3
    /\ properties_database[1].county = "Dallas County"
    /\ Len(result.listing) = 1
    /\ result.listing[1].property_id = properties_database[2].property_id

-----------------------------------------------------------------------------
(* Claims about ties and the reach of the labels *)

\* The place of a record in the catalog the Finder read
Pos(p) == CHOOSE i \in 1..Len(finder.db) : finder.db[i] = p

\* C17: of two candidates with equal scores the one earlier in the catalog
\* comes earlier in the returned list, and when the truncation cuts through
\* a group of equal scores the earlier catalog entries are the ones kept.
C17_TiesInCatalogOrder ==
    FinderCalled =>
        /\ \A i, j \in 1..Len(finder.results) :
             (i < j /\ finder.results[i].score = finder.results[j].score) =>
                 Pos(finder.results[i].prop) < Pos(finder.results[j].prop)
        /\ \A p \in Range(finder.db) \ Returned :
             p.property_id # TargetId =>
                \A i \in 1..Len(finder.results) :
                    calculate_similarity_score(finder.target[1], p) = finder.results[i].score
                        => Pos(finder.results[i].prop) < Pos(p)

\* two candidates with the top score, a higher identifier first in the
\* catalog, the list cut to one entry: the first of the two is kept
C17_Witness ==
    /\ FinderCalled
    /\ finder.max_results = 1
    /\ Len(finder.results) = 1
    /\ finder.results[1].prop.property_id = "CO0001"
    /\ \E p \in Range(finder.db) \ Returned :
         /\ p.property_id = "CO0000"
         /\ p.property_id # TargetId
         /\ calculate_similarity_score(finder.target[1], p) = finder.results[1].score
         /\ Pos(finder.results[1].prop) < Pos(p)

\* C18: the applied weights sum to 0.55, so no score the Finder returns is
\* over 0.55 and every comparable of every analysis result is labelled Low,
\* whatever the catalog and the target.
C18_OnlyLow ==
    /\ FinderCalled => \A i \in 1..Len(finder.results) : finder.results[i].score <= 5500
    /\ Assembled => \A i \in 1..Len(result.comparables) : Label(i) = "Low"

\* an analysis whose first comparable has the top score 0.55 and is labelled Low
C18_Witness ==
    /\ AnalyzeDone /\ Assembled
    /\ result.comparables # <<>>
    /\ finder.results[1].score = 5500
    /\ result.comparables[1].similarity_score = 5500
    /\ Label(1) = "Low"

====
